---- MODULE Spec2Model ----
(***************************************************************************)
(* Model of worker/src/lib.rs: the fetch entry point `main` of the         *)
(* "R2 File Explorer API" worker and its request logger `log_request`.     *)
(*                                                                         *)
(* One worker instance (a wasm isolate) serves a sequence of requests.     *)
(* Each invocation of main is an async task on the single-threaded host:   *)
(* it runs without interruption up to the `.await` at the end of main,     *)
(* where another invocation may start or resume.                           *)
(***************************************************************************)
EXTENDS Integers, Sequences, FiniteSets, TLC

\* Number of requests the instance serves in one behaviour.
NumReq == 2
\* Largest value of the wall clock (milliseconds since the epoch).
MaxClock == 1

Ids == 1..NumReq

----------------------------------------------------------------------------
\* Option<T>: None, or Some(x).
None == <<>>
Some(x) == <<x>>

\* Option::unwrap_or / unwrap_or_default / unwrap_or_else
unwrap_or(o, d) == IF o = None THEN d ELSE o[1]

\* Option::map with cf.coordinates().unwrap_or_default() as the closure
\* (the default of (f32, f32) is (0.0, 0.0)).
DefaultCoordinates == <<0, 0>>
map_coordinates(o) ==
    IF o = None THEN None ELSE Some(unwrap_or(o[1].coordinates, DefaultCoordinates))

\* Option::and_then with cf.region() as the closure.
and_then_region(o) == IF o = None THEN None ELSE o[1].region

----------------------------------------------------------------------------
\* Inputs: what the runtime hands to main.
Methods == {"GET", "POST"}
Paths == {"/", "/health", "/missing"}
CoordinateValues == {<<51, 7>>}
RegionValues == {"Texas"}
CfRecords ==
    [coordinates : {None} \cup {Some(c) : c \in CoordinateValues},
     region : {None} \cup {Some(g) : g \in RegionValues}]
CfValues == {None} \cup {Some(cf) : cf \in CfRecords}
Requests == [method : Methods, path : Paths, cf : CfValues]

NoRequest == [method |-> "", path |-> "", cf |-> None]
NoResponse == [status |-> 0, contentType |-> "", body |-> [none |-> TRUE]]
NoResult == [tag |-> "pending", response |-> NoResponse]

VARIABLES
    now,        \* the wall clock read by Date::now() and chrono::Utc::now()
    reqs,       \* reqs[r]: the Request passed to the r-th invocation of main
    pc,         \* pc[r]: the point of main the r-th invocation is at
    running,    \* the invocation holding the (single) thread, 0 when none
    console,    \* the lines written with console_log!, oldest first
    panicHook,  \* process-wide: TRUE once a panic hook is installed
    invoked,    \* invoked[r]: the route handler the router called for r
    routed,     \* routed[r]: the value of router.run(req, env)
    result      \* result[r]: the value main returned

vars == <<now, reqs, pc, running, console, panicHook, invoked, routed, result>>

----------------------------------------------------------------------------
\* log_request without the defaults of absent metadata.
LogLineNoDefault(req, millis) ==
    LET coordinates == unwrap_or(map_coordinates(req.cf), DefaultCoordinates)
        region == unwrap_or(and_then_region(req.cf), "")
    IN << millis, " - [", req.path, "], located at: ", coordinates,
          ", within: ", region >>

\* log_request: the line written with console_log!, as the sequence of its
\* literal pieces and formatted arguments.
LogLine(req, millis) ==
    LET coordinates == unwrap_or(map_coordinates(req.cf), DefaultCoordinates)
        region == unwrap_or(and_then_region(req.cf), "unknown region")
    IN << millis, " - [", req.path, "], located at: ", coordinates,
          ", within: ", region >>

\* utils::set_panic_hook: installs the console panic hook; installing it
\* again changes nothing.
set_panic_hook(installed) == TRUE

\* Response::ok(text), Response::from_json(value), Response::error(msg, status)
\* of the worker crate, each wrapped in Ok(..) of worker::Result.
Ok(resp) == [tag |-> "Ok", response |-> resp]
ResponseOk(text) ==
    Ok([status |-> 200, contentType |-> "text/plain; charset=utf-8",
        body |-> [text |-> text]])
ResponseFromJson(value) ==
    Ok([status |-> 200, contentType |-> "application/json",
        body |-> [json |-> value]])
ResponseError(msg, status) ==
    Ok([status |-> status, contentType |-> "text/plain; charset=utf-8",
        body |-> [text |-> msg]])

\* chrono's DateTime<Utc>::to_rfc3339 of the instant `millis` after the epoch.
to_rfc3339(millis) ==
    [date |-> "1970-01-01", secs |-> millis \div 1000,
     nanos |-> (millis % 1000) * 1000000, offset |-> "+00:00"]

\* env!("CARGO_PKG_VERSION"): fixed when the crate is built.
CARGO_PKG_VERSION == "CARGO_PKG_VERSION"

\* A "/" handler with another text.
RootHandlerOtherText(req, clock) == ResponseOk("R2 File Explorer")

\* A "/" handler that answers with the caller's region.
RootHandlerGeo(req, clock) ==
    ResponseOk(unwrap_or(and_then_region(req.cf), "unknown region"))

\* The closure registered for GET "/".
RootHandler(req, clock) == ResponseOk("R2 File Explorer API")

\* A "/health" handler stamping the epoch instead of the clock.
HealthHandlerEpoch(req, clock) ==
    ResponseFromJson([status |-> "healthy",
                      timestamp |-> to_rfc3339(0),
                      version |-> CARGO_PKG_VERSION])

\* The closure registered for GET "/health".
HealthHandler(req, clock) ==
    ResponseFromJson([status |-> "healthy",
                      timestamp |-> to_rfc3339(clock),
                      version |-> CARGO_PKG_VERSION])

\* A route table with "/health" registered for POST as well.
RoutesHealthPost ==
    << [method |-> "GET", pattern |-> "/", handler |-> "root"],
       [method |-> "GET", pattern |-> "/health", handler |-> "health"],
       [method |-> "POST", pattern |-> "/health", handler |-> "health"] >>

\* The route table main builds, in registration order.
Routes ==
    << [method |-> "GET", pattern |-> "/", handler |-> "root"],
       [method |-> "GET", pattern |-> "/health", handler |-> "health"] >>

\* Router::run, matching: the first route registered for the request's
\* method whose pattern is the request's path, 0 when there is none.
MatchRoute(req) ==
    LET hits == {i \in DOMAIN Routes :
                    Routes[i].method = req.method /\ Routes[i].pattern = req.path}
    IN IF hits = {} THEN 0 ELSE CHOOSE i \in hits : \A j \in hits : i <= j

\* Router::run, no route matched: 405 when the path is registered for
\* another method, 404 otherwise.
RouterDefault(req) ==
    IF \E i \in DOMAIN Routes : Routes[i].pattern = req.path
    THEN ResponseError("Method Not Allowed", 405)
    ELSE ResponseError("Not Found", 404)

\* Router::run: the handler called ("none" when no route matched).
RouterHandler(req) ==
    IF MatchRoute(req) = 0 THEN "none" ELSE Routes[MatchRoute(req)].handler

\* Router::run: its value.
RouterRun(req, clock) ==
    CASE RouterHandler(req) = "root" -> RootHandler(req, clock)
      [] RouterHandler(req) = "health" -> HealthHandler(req, clock)
      [] OTHER -> RouterDefault(req)

----------------------------------------------------------------------------
Init ==
    /\ now = 0
    /\ reqs = [r \in Ids |-> NoRequest]
    /\ pc = [r \in Ids |-> "idle"]
    /\ running = 0
    /\ console = <<>>
    /\ panicHook = FALSE
    /\ invoked = [r \in Ids |-> "none"]
    /\ routed = [r \in Ids |-> NoResult]
    /\ result = [r \in Ids |-> NoResult]

\* The wall clock advances.
Tick ==
    /\ now < MaxClock
    /\ now' = now + 1
    /\ UNCHANGED <<reqs, pc, running, console, panicHook, invoked, routed, result>>

\* The runtime delivers the r-th request: main is entered.
Fetch(r, req) ==
    /\ running = 0
    /\ pc[r] = "idle"
    /\ \A q \in Ids : q < r => pc[q] # "idle"
    /\ reqs' = [reqs EXCEPT ![r] = req]
    /\ pc' = [pc EXCEPT ![r] = "log"]
    /\ running' = r
    /\ UNCHANGED <<now, console, panicHook, invoked, routed, result>>

\* log_request called twice.
LogRequestTwice(r) ==
    /\ running = r
    /\ pc[r] = "log"
    /\ console' = Append(Append(console, LogLine(reqs[r], now)), LogLine(reqs[r], now))
    /\ pc' = [pc EXCEPT ![r] = "hook"]
    /\ UNCHANGED <<now, reqs, running, panicHook, invoked, routed, result>>

\* main: log_request(&req);
LogRequest(r) ==
    /\ running = r
    /\ pc[r] = "log"
    /\ console' = Append(console, LogLine(reqs[r], now))
    /\ pc' = [pc EXCEPT ![r] = "hook"]
    /\ UNCHANGED <<now, reqs, running, panicHook, invoked, routed, result>>

\* main: utils::set_panic_hook();
SetPanicHook(r) ==
    /\ running = r
    /\ pc[r] = "hook"
    /\ panicHook' = set_panic_hook(panicHook)
    /\ pc' = [pc EXCEPT ![r] = "route"]
    /\ UNCHANGED <<now, reqs, running, console, invoked, routed, result>>

\* A dispatch that answers from the last response routed, when there is one.
DispatchCached(r) ==
    /\ running = r
    /\ pc[r] = "route"
    /\ invoked' = [invoked EXCEPT ![r] = RouterHandler(reqs[r])]
    /\ routed' = [routed EXCEPT ![r] =
                    IF r > 1 THEN routed[r - 1] ELSE RouterRun(reqs[r], now)]
    /\ pc' = [pc EXCEPT ![r] = "await"]
    /\ running' = 0
    /\ UNCHANGED <<now, reqs, console, panicHook, result>>

\* A dispatch that keeps the thread while it awaits.
DispatchBlocking(r) ==
    /\ running = r
    /\ pc[r] = "route"
    /\ invoked' = [invoked EXCEPT ![r] = RouterHandler(reqs[r])]
    /\ routed' = [routed EXCEPT ![r] = RouterRun(reqs[r], now)]
    /\ pc' = [pc EXCEPT ![r] = "await"]
    /\ UNCHANGED <<now, reqs, running, console, panicHook, result>>

\* main: Router::new().get(..).get(..).run(req, env), up to the await.
Dispatch(r) ==
    /\ running = r
    /\ pc[r] = "route"
    /\ invoked' = [invoked EXCEPT ![r] = RouterHandler(reqs[r])]
    /\ routed' = [routed EXCEPT ![r] = RouterRun(reqs[r], now)]
    /\ pc' = [pc EXCEPT ![r] = "await"]
    /\ running' = 0
    /\ UNCHANGED <<now, reqs, console, panicHook, result>>

\* A return that takes the panic hook down again.
ReturnUninstall(r) ==
    /\ running = 0
    /\ pc[r] = "await"
    /\ result' = [result EXCEPT ![r] = routed[r]]
    /\ pc' = [pc EXCEPT ![r] = "done"]
    /\ panicHook' = FALSE
    /\ UNCHANGED <<now, reqs, running, console, invoked, routed>>

\* main: the awaited value is main's value.
Return(r) ==
    /\ running = 0
    /\ pc[r] = "await"
    /\ result' = [result EXCEPT ![r] = routed[r]]
    /\ pc' = [pc EXCEPT ![r] = "done"]
    /\ UNCHANGED <<now, reqs, running, console, panicHook, invoked, routed>>

\* One step of the instance, the runtime drawing requests from `inputs`.
NextOver(inputs) ==
    \/ Tick
    \/ \E r \in Ids, req \in inputs : Fetch(r, req)
    \/ \E r \in Ids : LogRequest(r)
    \/ \E r \in Ids : SetPanicHook(r)
    \/ \E r \in Ids : Dispatch(r)
    \/ \E r \in Ids : Return(r)

\* Requests with every method and path, without geolocation or with all of it.
RouteRequests ==
    {req \in Requests :
        \/ req.cf = None
        \/ req.cf # None /\ req.cf[1].coordinates # None /\ req.cf[1].region # None}

\* GET requests with every path and every shape of geolocation metadata.
GeoRequests == {req \in Requests : req.method = "GET"}

\* Requests with every method and path and no geolocation metadata.
BareRequests == {req \in Requests : req.cf = None}

Next == NextOver(RouteRequests)
Spec == Init /\ [][Next]_vars

GeoNext == NextOver(GeoRequests)
GeoSpec == Init /\ [][GeoNext]_vars

\* The host polls every task that can run, and router.run completes.
BareNext == NextOver(BareRequests)
Fairness ==
    \A r \in Ids :
        /\ WF_vars(LogRequest(r))
        /\ WF_vars(SetPanicHook(r))
        /\ WF_vars(Dispatch(r))
        /\ WF_vars(Return(r))
FairSpec == Init /\ [][BareNext]_vars /\ Fairness

----------------------------------------------------------------------------
\* Types of the state.
TypeOK ==
    /\ now \in 0..MaxClock
    /\ reqs \in [Ids -> Requests \cup {NoRequest}]
    /\ pc \in [Ids -> {"idle", "log", "hook", "route", "await", "done"}]
    /\ running \in 0..NumReq
    /\ panicHook \in BOOLEAN
    /\ invoked \in [Ids -> {"none", "root", "health"}]

----------------------------------------------------------------------------
\* Helpers of the properties.

Done(r) == pc[r] = "done"
IsGet(r, path) == reqs[r].method = "GET" /\ reqs[r].path = path
Matched(r) == IsGet(r, "/") \/ IsGet(r, "/health")
Logged(r) == pc[r] \notin {"idle", "log"}

\* a and b are the same result, whatever the timestamp of a JSON body.
SameUpToClock(a, b) ==
    /\ a.tag = b.tag
    /\ a.response.status = b.response.status
    /\ a.response.contentType = b.response.contentType
    /\ DOMAIN a.response.body = DOMAIN b.response.body
    /\ IF DOMAIN a.response.body = {"json"}
       THEN [a.response.body.json EXCEPT !.timestamp = 0]
                = [b.response.body.json EXCEPT !.timestamp = 0]
       ELSE a.response.body = b.response.body

----------------------------------------------------------------------------
\* C1: every finished GET "/" request, whatever its geolocation metadata and
\* whatever was handled before it, got Ok with status 200 and the body
\* "R2 File Explorer API".
C1_RootOk ==
    \A r \in Ids :
        (Done(r) /\ IsGet(r, "/")) =>
            /\ result[r].tag = "Ok"
            /\ result[r].response.status = 200
            /\ result[r].response.body = [text |-> "R2 File Explorer API"]

\* A GET "/" with full geolocation metadata finished after an earlier
\* request to another route finished.
C1_Witness ==
    /\ Done(1) /\ ~IsGet(1, "/")
    /\ Done(2) /\ IsGet(2, "/") /\ reqs[2].cf # None
    /\ result[2].response.status = 200

\* C2: the GET "/health" handler yields Ok with status 200 and a JSON body of
\* exactly the fields status, timestamp, version: "healthy", the clock when the
\* handler runs as RFC 3339, and the build's version; main returns that value.
C2_Health ==
    [][\A r \in Ids :
         /\ (pc[r] = "route" /\ pc'[r] = "await" /\ IsGet(r, "/health")) =>
               /\ routed'[r].tag = "Ok"
               /\ routed'[r].response.status = 200
               /\ DOMAIN routed'[r].response.body = {"json"}
               /\ DOMAIN routed'[r].response.body.json
                     = {"status", "timestamp", "version"}
               /\ routed'[r].response.body.json.status = "healthy"
               /\ routed'[r].response.body.json.timestamp = to_rfc3339(now)
               /\ routed'[r].response.body.json.version = CARGO_PKG_VERSION
         /\ (pc[r] = "await" /\ pc'[r] = "done" /\ IsGet(r, "/health")) =>
               result'[r] = routed[r]
      ]_vars

\* Two GET "/health" requests finished with different timestamps and the same
\* version, the later one stamped after the clock advanced.
C2_Witness ==
    /\ Done(1) /\ IsGet(1, "/health")
    /\ Done(2) /\ IsGet(2, "/health")
    /\ result[1].response.body.json.timestamp = to_rfc3339(0)
    /\ result[2].response.body.json.timestamp.nanos = 1000000
    /\ result[1].response.body.json.version = result[2].response.body.json.version

\* C3: log_request always completes (it has no failing branch), and the line
\* it wrote carries the request's path, the supplied coordinates or (0, 0),
\* and the supplied region or "unknown region", in each of the five shapes of
\* the geolocation metadata.
C3_LogDefaults ==
    \A r \in Ids :
        /\ pc[r] = "log" => ENABLED LogRequest(r)
        /\ Logged(r) =>
             /\ r <= Len(console)
             /\ LET line == console[r]
                    cf == reqs[r].cf
                IN /\ Len(line) = 7
                   /\ line[3] = reqs[r].path
                   /\ cf = None => line[5] = <<0, 0>> /\ line[7] = "unknown region"
                   /\ cf # None =>
                        /\ cf[1].coordinates = None => line[5] = <<0, 0>>
                        /\ cf[1].coordinates # None => line[5] = cf[1].coordinates[1]
                        /\ cf[1].region = None => line[7] = "unknown region"
                        /\ cf[1].region # None => line[7] = cf[1].region[1]

\* Both requests logged: one without a geolocation record, one with
\* coordinates and no region.
C3_Witness ==
    /\ Logged(1) /\ reqs[1].cf = None
    /\ Logged(2) /\ reqs[2].cf # None
    /\ reqs[2].cf[1].coordinates # None /\ reqs[2].cf[1].region = None
    /\ console[1][7] = "unknown region" /\ console[1][5] = <<0, 0>>
    /\ console[2][7] = "unknown region" /\ console[2][5] # <<0, 0>>

\* C4: at every point of main where a panic can occur, the call to
\* log_request included, the panic hook is installed.
C4_HookCoversMain ==
    \A r \in Ids : pc[r] \in {"log", "route", "await"} => panicHook

\* C5: a finished request that is neither GET "/" nor GET "/health" had no
\* handler called, and main returned the router's default response as it is.
C5_Unmatched ==
    \A r \in Ids :
        (Done(r) /\ ~Matched(r)) =>
            /\ invoked[r] = "none"
            /\ result[r] = RouterDefault(reqs[r])
            /\ result[r].response.status \in {404, 405}
            /\ result[r].response.body
                  \notin {RootHandler(reqs[r], t).response.body : t \in 0..MaxClock}

\* An unregistered path and a non-GET method on a registered path both
\* finished.
C5_Witness ==
    /\ Done(1) /\ reqs[1].method = "GET" /\ reqs[1].path = "/missing"
    /\ Done(2) /\ reqs[2].method = "POST" /\ reqs[2].path = "/health"
    /\ invoked[1] = "none" /\ invoked[2] = "none"

\* C6: each invocation of main writes exactly one log line, matched or not,
\* and its steps come in the order log, hook installation, dispatch, response:
\* nothing is routed or returned before the invocation's log and hook steps.
StageNo(stage) ==
    CASE stage = "idle" -> 0 [] stage = "log" -> 1 [] stage = "hook" -> 2
      [] stage = "route" -> 3 [] stage = "await" -> 4 [] stage = "done" -> 5

C6_LogHookDispatch ==
    [][/\ Len(console') = Cardinality({q \in Ids : StageNo(pc'[q]) >= 2})
       /\ console' # console =>
             \E q \in Ids : pc[q] = "log" /\ pc'[q] = "hook"
       /\ panicHook' # panicHook =>
             \E q \in Ids : pc[q] = "hook" /\ pc'[q] = "route"
       /\ \A r \in Ids :
             /\ pc'[r] # pc[r] => StageNo(pc'[r]) = StageNo(pc[r]) + 1
             /\ (pc[r] = "log" /\ pc'[r] = "hook") =>
                   /\ console' = Append(console, console'[Len(console')])
                   /\ UNCHANGED <<panicHook, invoked, routed, result>>
             /\ (pc[r] = "hook" /\ pc'[r] = "route") =>
                   /\ panicHook'
                   /\ UNCHANGED <<console, invoked, routed, result>>
             /\ StageNo(pc'[r]) <= 3 =>
                   invoked'[r] = "none" /\ routed'[r] = NoResult
             /\ StageNo(pc'[r]) >= 4 => routed'[r] # NoResult
             /\ StageNo(pc'[r]) <= 4 => result'[r] = NoResult
             /\ StageNo(pc'[r]) = 5 => result'[r] # NoResult
      ]_vars

\* A matched and an unmatched request both finished, with two lines logged.
C6_Witness ==
    /\ Done(1) /\ Matched(1)
    /\ Done(2) /\ ~Matched(2)
    /\ Len(console) = 2

\* C7: two finished requests with the same method and path had the same
\* handler called and got the same status and body (up to the timestamp),
\* whatever their geolocation metadata.
C7_GeoNoInfluence ==
    \A r1, r2 \in Ids :
        (/\ Done(r1) /\ Done(r2)
         /\ reqs[r1].method = reqs[r2].method
         /\ reqs[r1].path = reqs[r2].path) =>
            /\ invoked[r1] = invoked[r2]
            /\ SameUpToClock(result[r1], result[r2])

\* Two finished requests to the same route, one without a geolocation record
\* and one with a region, whose log lines differ.
C7_Witness ==
    /\ Done(1) /\ Done(2)
    /\ reqs[1].method = reqs[2].method /\ reqs[1].path = reqs[2].path
    /\ reqs[1].cf = None
    /\ reqs[2].cf # None /\ reqs[2].cf[1].region # None
    /\ console[1][7] # console[2][7]

\* C8: a step of one invocation leaves the values of every other invocation
\* alone, and a finished request's result is, up to the timestamp, the one a
\* fresh instance gives its method and path alone, whatever ran before or
\* in between.
C8_Stateless ==
    [][\A r \in Ids :
         /\ pc'[r] = pc[r] =>
               /\ reqs'[r] = reqs[r]
               /\ invoked'[r] = invoked[r]
               /\ routed'[r] = routed[r]
               /\ result'[r] = result[r]
         /\ pc'[r] = "done" =>
               SameUpToClock(result'[r],
                             RouterRun([method |-> reqs'[r].method,
                                        path |-> reqs'[r].path,
                                        cf |-> None], 0))
      ]_vars

\* The second request finished while the first, to the same route, is still
\* suspended at its await with the same routed value up to the timestamp.
C8_Witness ==
    /\ pc[1] = "await" /\ Done(2)
    /\ Matched(1)
    /\ reqs[1].method = reqs[2].method /\ reqs[1].path = reqs[2].path
    /\ reqs[1].cf # reqs[2].cf
    /\ SameUpToClock(routed[1], result[2])

C10_Terminates ==
    \A r \in Ids : (pc[r] = "log") ~> (Done(r) /\ result[r].tag = "Ok")

\* The second invocation finished while the first is still at its await.
C10_Witness ==
    /\ pc[1] = "await"
    /\ Done(2) /\ result[2].tag = "Ok"

====
